---- MODULE Spec2Model ----
(***************************************************************************)
(* A model of multiecho/combination.py: load_me_data, paid_weights and     *)
(* me_combine.  One run of me_combine is followed block by block; every    *)
(* image carries one voxel, so a 4D echo is its time series and a 3D echo  *)
(* a single value (numpy works voxel by voxel, the spatial axes only       *)
(* repeat what one voxel shows).                                           *)
(***************************************************************************)
EXTENDS Integers, Sequences, FiniteSets, TLC

\* ------------------------------------------------------------- bounds
\* At most this many files match the pattern.
MaxEchoes == 3
\* The largest number of volumes (4th axis) of an echo.
MaxSamples == 3
\* The largest value of the `volumes` argument.
MaxVols == 2
\* A square root is rounded down to a multiple of 1/Precision
\* (float64 rounds it to 53 bits).
Precision == 16

\* The numbers of volumes an echo can have.
SampleCounts == 1..MaxSamples
\* Echo times (sidecar 'EchoTime' or the caller's weights).
EchoTimes == {1, 2}
\* -a/--algorithm; "median" stands for every name that is none of the three.
Algorithms == {"average", "PAID", "TE", "median"}
\* What the voxel holds: a signal that changes in time, a constant one
\* (background 0 in the first file), a +Inf or a NaN in the first file.
DataKinds == {"ramp", "flat", "inf", "nan"}

\* ------------------------------------------------- float64 arithmetic
Abs(x) == IF x < 0 THEN -x ELSE x

RECURSIVE GCD(_, _)
GCD(a, b) == IF b = 0 THEN a ELSE GCD(b, a % b)

\* A finite float: the fraction n/d in lowest terms.
Fin(n, d) ==
    LET g == GCD(Abs(n), d)
    IN  [k |-> "fin", n |-> n \div g, d |-> d \div g]

NaN == [k |-> "nan", n |-> 0, d |-> 1]
PInf == [k |-> "inf", n |-> 1, d |-> 1]
NInf == [k |-> "inf", n |-> -1, d |-> 1]
\* The largest finite float (1.797e308; sys.float_info.max) and its negative.
FloatMax == [k |-> "max", n |-> 1, d |-> 1]
FloatMin == [k |-> "max", n |-> -1, d |-> 1]

Sgn(x) == IF x.n > 0 THEN 1 ELSE IF x.n < 0 THEN -1 ELSE 0
Inf(s) == IF s > 0 THEN PInf ELSE NInf

\* IEEE 754 addition.
FAdd(a, b) ==
    IF a.k = "nan" \/ b.k = "nan" THEN NaN
    ELSE IF a.k = "inf" /\ b.k = "inf" THEN (IF a.n = b.n THEN a ELSE NaN)
    ELSE IF a.k = "inf" THEN a
    ELSE IF b.k = "inf" THEN b
    ELSE Fin(a.n * b.d + b.n * a.d, a.d * b.d)

FNeg(a) == IF a.k = "nan" THEN NaN ELSE [a EXCEPT !.n = -a.n]

FSub(a, b) == FAdd(a, FNeg(b))

\* IEEE 754 multiplication: Inf * 0 is NaN.
FMul(a, b) ==
    IF a.k = "nan" \/ b.k = "nan" THEN NaN
    ELSE IF a.k = "inf" \/ b.k = "inf"
         THEN (IF Sgn(a) * Sgn(b) = 0 THEN NaN ELSE Inf(Sgn(a) * Sgn(b)))
    ELSE Fin(a.n * b.n, a.d * b.d)

\* IEEE 754 division: x/0 is +-Inf, 0/0 and Inf/Inf are NaN.
FDiv(a, b) ==
    IF a.k = "nan" \/ b.k = "nan" THEN NaN
    ELSE IF a.k = "inf" /\ b.k = "inf" THEN NaN
    ELSE IF a.k = "inf" THEN Inf(IF Sgn(b) < 0 THEN -Sgn(a) ELSE Sgn(a))
    ELSE IF b.k = "inf" THEN Fin(0, 1)
    ELSE IF b.n = 0 THEN (IF a.n = 0 THEN NaN ELSE Inf(Sgn(a)))
    ELSE Fin(Sgn(b) * a.n * b.d, a.d * Abs(b.n))

ISqrt(m) == CHOOSE r \in 0..m : r * r <= m /\ (r + 1) * (r + 1) > m

\* np.sqrt of a non-negative float, rounded.
FSqrt(a) ==
    IF a.k = "nan" THEN NaN
    ELSE IF a.k = "inf" THEN (IF a.n > 0 THEN PInf ELSE NaN)
    ELSE IF a.n < 0 THEN NaN
    ELSE Fin(ISqrt((a.n * Precision * Precision) \div a.d), Precision)

RECURSIVE FSum(_)
FSum(s) == IF s = <<>> THEN Fin(0, 1) ELSE FAdd(Head(s), FSum(Tail(s)))

\* ndarray.mean over one axis; the mean of an empty slice is NaN (0/0).
Mean(s) == FDiv(FSum(s), Fin(Len(s), 1))

\* ndarray.std over one axis: sqrt(mean(abs(x - x.mean())**2)).
Std(s) ==
    LET m == Mean(s)
    IN  FSqrt(Mean([i \in 1..Len(s) |-> FMul(FSub(s[i], m), FSub(s[i], m))]))

\* np.nan_to_num with its defaults: NaN -> 0.0, +Inf -> the largest finite
\* float, -Inf -> the most negative one.
NanToNum(x) ==
    IF x.k = "nan" THEN Fin(0, 1)
    ELSE IF x.k = "inf" THEN (IF x.n > 0 THEN FloatMax ELSE FloatMin)
    ELSE x

Min(S) == CHOOSE x \in S : \A y \in S : x <= y

\* s[-n:] of Python: -0 is 0, so n = 0 gives the whole sequence, and an n
\* beyond the length is clipped to it.
TailSlice(s, n) ==
    IF n = 0 \/ n >= Len(s) THEN s ELSE SubSeq(s, Len(s) - n + 1, Len(s))

\* s[0:n] of Python.
HeadSlice(s, n) == SubSeq(s, 1, IF n < Len(s) THEN n ELSE Len(s))

\* np.diff
Diff(s) == [i \in 1..(Len(s) - 1) |-> s[i + 1] - s[i]]

\* sum(x == v) over an array
CountEq(s, v) == Cardinality({i \in 1..Len(s) : s[i] = v})

Range(s) == {s[i] : i \in 1..Len(s)}

\* ------------------------------------------------------------- state
VARIABLES
    pc,          \* where the run stands
    entry,       \* the function the caller called
    stage,       \* the block in which the run ended
    LOGGER,      \* the module's global LOGGER: "undefined" or "set"
    log,         \* the records the run has logged
    nfiles,      \* the files the pattern resolves to are 1..nfiles, in sorted(glob) order
    TEs_in,      \* the echo time of each file, by its place in the unsorted list
    ndim,        \* 3 or 4, of every echo
    shape3,      \* echo.shape[3] of each file (4D)
    kind,        \* the kind of voxel data in the files
    algorithm,   \* the arguments of me_combine
    volumes,
    saveweights,
    weights,     \* me_combine's variable `weights` (first the argument)
    me_data,     \* what load_me_data returned: <<[echo, TE]>>
    datafiles,
    n_vols,      \* paid_weights' n_vols
    dim4,        \* the numbers of volumes the echoes are stacked with
    echos,       \* the stacked echoes
    average,     \* np.average's result
    combinedFile, \* the written combined image, or <<>>
    weightsFile, \* the written weights image, or <<>>
    ret,         \* <<the value returned>>, or <<>>
    exc          \* the exception that left the run, or "none"

vars == <<pc, entry, stage, LOGGER, log, nfiles, TEs_in, ndim, shape3, kind,
          algorithm, volumes, saveweights, weights, me_data, datafiles,
          n_vols, dim4, echos, average, combinedFile, weightsFile, ret, exc>>

None == [form |-> "None"]
\* No image written (a written image has at least one volume).
NotWritten == <<>>

\* ------------------------------------------------------- the images
\* The voxel of file f at volume t.
Sample(f, t) ==
    CASE kind = "ramp" -> Fin(f + t, 1)
      [] kind = "flat" -> Fin(f - 1, 1)
      [] kind = "inf"  -> IF f = 1 THEN PInf ELSE Fin(f + t, 1)
      [] kind = "nan"  -> IF f = 1 THEN NaN ELSE Fin(f + t, 1)

\* echo.get_data(): the time series of a 4D echo, the one value of a 3D one.
GetData(f) == [t \in 1..(IF ndim = 4 THEN shape3[f] ELSE 1) |-> Sample(f, t)]

\* ------------------------------------------------------ load_me_data
Perms(n) == {s \in [1..n -> 1..n] : \A i, j \in 1..n : i # j => s[i] # s[j]}

\* np.argsort(TEs), kind 'quicksort': an index array that sorts TEs.  numpy
\* does not promise the order of equal keys (the default sort is not stable;
\* which order comes out depends on the build), so every sorting permutation
\* is an outcome.
ArgSort(t) ==
    {s \in Perms(Len(t)) : \A i, j \in 1..Len(t) : i < j => t[s[i]] <= t[s[j]]}

\* np.array(x)[s]
Take(x, s) == [i \in 1..Len(s) |-> x[s[i]]]

\* sorted(pattern.parent.glob(pattern.name))
Glob == [f \in 1..nfiles |-> f]

\* [(nib.load(str(datafile)), TEs[n]) for n, datafile in enumerate(datafiles)]
Pair(files, tes) == [i \in 1..Len(files) |-> [echo |-> files[i], TE |-> tes[i]]]

\* ----------------------------------------------------- paid_weights
\* weight(echo, TE) of paid_weights: TE * mean / std over data[..., -n_vols:].
Weight(echo, TE, nv) ==
    LET window == TailSlice(GetData(echo), nv)
    IN  FDiv(FMul(Fin(TE, 1), Mean(window)), Std(window))

\* n_vols = min(n_vols, echoes[0][0].shape[3])
PaidNVols(echoes, nv) ==
    IF nv < shape3[echoes[1].echo] THEN nv ELSE shape3[echoes[1].echo]

\* np.stack([weight(echo, TE) for echo, TE in echoes], axis=-1)
PaidWeights(echoes, nv) ==
    [e \in 1..Len(echoes) |->
        Weight(echoes[e].echo, echoes[e].TE, PaidNVols(echoes, nv))]

\* np.tile(weights[:, :, :, np.newaxis, :], (1, 1, 1, reps, 1))
Tile(w, reps) ==
    [form |-> "array", w |-> [e \in 1..Len(w) |-> [t \in 1..reps |-> w[e]]]]

\* A slip: every echo weighted alike.
TEWeightsUniform(md) == [form |-> "list", w |-> [e \in 1..Len(md) |-> 1]]

\* [TE for echo, TE in me_data]
TEWeights(md) == [form |-> "list", w |-> [e \in 1..Len(md) |-> md[e].TE]]

\* ------------------------------------------------------- me_combine
\* A slip: the second test, that every other step is 0, left out.
OneStepDownOnly(d) == CountEq(Diff(d), -1) = 1

\* sum(np.diff(dim4)==-1) == 1 and sum(np.diff(dim4)==0) == len(dim4)-2
OneStepDown(d) ==
    CountEq(Diff(d), -1) = 1 /\ CountEq(Diff(d), 0) = Len(d) - 2

\* The stacked echoes of 4D data: echo.get_data()[:, :, :, 0:dim4[0]].
Stack4D(md, d) == [e \in 1..Len(md) |-> HeadSlice(GetData(md[e].echo), d[1])]

\* The stacked echoes of 3D data.
Stack3D(md) == [e \in 1..Len(md) |-> GetData(md[e].echo)]

\* The echoes' values at volume t.
AtVolume(a, t) == [e \in 1..Len(a) |-> a[e][t]]

Extent(a) == IF Len(a) = 0 THEN 0 ELSE Len(a[1])

\* np.average(a, axis=-1, weights=w): the exception it raises, or the averages.
Average(a, w) ==
    CASE w.form = "None" ->
            [exc |-> "none",
             a |-> [t \in 1..Extent(a) |-> Mean(AtVolume(a, t))]]
      [] w.form = "list" ->
            LET wgt == [e \in 1..Len(w.w) |-> Fin(w.w[e], 1)]
                scl == FSum(wgt)
            IN  IF Len(wgt) # Len(a) THEN [exc |-> "ValueError", a |-> <<>>]
                ELSE IF scl = Fin(0, 1)
                     THEN [exc |-> "ZeroDivisionError", a |-> <<>>]
                ELSE [exc |-> "none",
                      a |-> [t \in 1..Extent(a) |->
                               FDiv(FSum([e \in 1..Len(a) |->
                                            FMul(a[e][t], wgt[e])]), scl)]]
      [] w.form = "array" ->
            IF Len(w.w) # Len(a) \/ Extent(w.w) # Extent(a)
            THEN [exc |-> "TypeError", a |-> <<>>]
            ELSE IF \E t \in 1..Extent(a) : FSum(AtVolume(w.w, t)) = Fin(0, 1)
                 THEN [exc |-> "ZeroDivisionError", a |-> <<>>]
            ELSE [exc |-> "none",
                  a |-> [t \in 1..Extent(a) |->
                           FDiv(FSum([e \in 1..Len(a) |->
                                        FMul(a[e][t], w.w[e][t])]),
                                FSum(AtVolume(w.w, t)))]]

\* np.squeeze(weights[..., 0, :])
FirstVolume(w) == [e \in 1..Len(w.w) |-> w.w[e][1]]

\* ------------------------------------------------------------ actions
Init ==
    /\ pc = "idle"
    /\ entry = "none"
    /\ stage = "none"
    /\ LOGGER = "undefined"
    /\ log = <<>>
    /\ nfiles = 0
    /\ TEs_in = <<>>
    /\ ndim = 3
    /\ shape3 = <<>>
    /\ kind = "ramp"
    /\ algorithm = "TE"
    /\ volumes = MaxVols
    /\ saveweights = TRUE
    /\ weights = None
    /\ me_data = <<>>
    /\ datafiles = <<>>
    /\ n_vols = 0
    /\ dim4 = <<>>
    /\ echos = <<>>
    /\ average = <<>>
    /\ combinedFile = NotWritten
    /\ weightsFile = NotWritten
    /\ ret = <<>>
    /\ exc = "none"

\* A call starts from the files on disk and the caller's arguments.
Enter(fn, n, te, explicit, nd, sh, kd) ==
    /\ pc' = "load"
    /\ entry' = fn
    /\ stage' = "none"
    /\ log' = <<>>
    /\ nfiles' = n
    /\ TEs_in' = te
    /\ ndim' = nd
    /\ shape3' = sh
    /\ kind' = kd
    /\ algorithm' = "TE"
    /\ volumes' = MaxVols
    /\ saveweights' = TRUE
    /\ weights' = IF explicit THEN [form |-> "list", w |-> te] ELSE None
    /\ me_data' = <<>>
    /\ datafiles' = <<>>
    /\ n_vols' = 0
    /\ dim4' = <<>>
    /\ echos' = <<>>
    /\ average' = <<>>
    /\ combinedFile' = NotWritten
    /\ weightsFile' = NotWritten
    /\ ret' = <<>>
    /\ exc' = "none"

\* The files a pattern can select: 3D or 4D echoes; voxels that are not a
\* plain signal are tried on complete acquisitions.
Images(n, nd, sh, kd) ==
    /\ nd = 3 => sh = <<>>
    /\ nd = 4 => sh \in [1..n -> SampleCounts]
    /\ kd # "ramp" /\ nd = 4 => \A f, g \in 1..n : sh[f] = sh[g]

\* me_combine(pattern, ..., weights, ...) up to the call of load_me_data:
\* the global LOGGER is set.  An empty weights list is the same as None.
MeCombineCall ==
    /\ pc = "idle"
    /\ \E n \in 0..MaxEchoes, explicit \in BOOLEAN, nd \in {3, 4}, kd \in DataKinds :
         \E te \in [1..n -> EchoTimes], sh \in [1..n -> SampleCounts] \cup {<<>>} :
           /\ Images(n, nd, sh, kd)
           /\ explicit => n > 0
           /\ Enter("me_combine", n, te, explicit, nd, sh, kd)
           /\ LOGGER' = "set"

\* load_me_data(pattern, TEs) called by itself: LOGGER is whatever an
\* earlier me_combine left.  load_me_data reads no voxel.
LoadMeDataCall ==
    /\ pc = "idle"
    /\ \E n \in 0..MaxEchoes, explicit \in BOOLEAN :
         \E te \in [1..n -> EchoTimes] :
           /\ explicit => n > 0
           /\ Enter("load_me_data", n, te, explicit, 3, <<>>, "ramp")
           /\ UNCHANGED LOGGER

Raise(e, where) ==
    /\ exc' = e
    /\ stage' = where
    /\ pc' = "Done"

\* The body of load_me_data.
LoadMeData ==
    /\ pc = "load"
    /\ \E s \in ArgSort(TEs_in) :
         IF LOGGER = "undefined"
         THEN /\ Raise("NameError", "load")
              /\ UNCHANGED <<log, me_data, datafiles, ret>>
         ELSE /\ log' = log \o <<"info Multi-Echo times", "info Loading ME-files">>
              /\ datafiles' = Take(Glob, s)
              /\ me_data' = Pair(Take(Glob, s), Take(TEs_in, s))
              /\ IF entry = "load_me_data"
                 THEN /\ pc' = "Done"
                      /\ stage' = "load"
                      /\ ret' = <<me_data', datafiles'>>
                 ELSE /\ pc' = "Loaded"
                      /\ UNCHANGED <<stage, ret>>
              /\ exc' = exc
    /\ UNCHANGED <<entry, LOGGER, nfiles, TEs_in, ndim, shape3, kind, algorithm,
                   volumes, saveweights, weights, n_vols, dim4, echos, average,
                   combinedFile, weightsFile>>

\* "Parse the filenames": datafile = datafiles[0].
ParseFilenames ==
    /\ pc = "Loaded"
    /\ IF Len(datafiles) = 0
       THEN Raise("IndexError", "parse")
       ELSE /\ pc' = "Parsed"
            /\ UNCHANGED <<exc, stage>>
    /\ UNCHANGED <<entry, LOGGER, log, nfiles, TEs_in, ndim, shape3, kind,
                   algorithm, volumes, saveweights, weights, me_data, datafiles,
                   n_vols, dim4, echos, average, combinedFile, weightsFile, ret>>

\* "Compute the weights".  `volumes` is read by PAID alone.
ComputeWeights ==
    /\ pc = "Parsed"
    /\ \E alg \in Algorithms, vols \in 0..MaxVols :
         /\ alg # "PAID" => vols = MaxVols
         /\ algorithm' = alg
         /\ volumes' = vols
         /\ CASE alg = "average" ->
                   /\ weights' = None
                   /\ pc' = "WeightsComputed"
                   /\ UNCHANGED <<log, n_vols, exc, stage>>
              [] alg = "PAID" ->
                   IF ndim < 4
                   THEN \* the message's {me_data[0][0].shape()} calls a tuple
                        /\ Raise("TypeError", "weights")
                        /\ UNCHANGED <<log, n_vols, weights>>
                   ELSE /\ n_vols' = PaidNVols(me_data, vols)
                        /\ weights' = Tile(PaidWeights(me_data, vols),
                                           shape3[me_data[1].echo])
                        /\ pc' = "WeightsComputed"
                        /\ UNCHANGED <<log, exc, stage>>
              [] alg = "TE" ->
                   /\ weights' = TEWeights(me_data)
                   /\ pc' = "WeightsComputed"
                   /\ UNCHANGED <<log, n_vols, exc, stage>>
              [] OTHER ->
                   /\ log' = Append(log, "error Unknown algorithm")
                   /\ pc' = "WeightsComputed"
                   /\ UNCHANGED <<weights, n_vols, exc, stage>>
    /\ UNCHANGED <<entry, LOGGER, nfiles, TEs_in, ndim, shape3, kind, saveweights,
                   me_data, datafiles, dim4, echos, average, combinedFile,
                   weightsFile, ret>>

\* "Truncate incomplete acquisitions" and stack the echoes.
CheckConsistency ==
    /\ pc = "WeightsComputed"
    /\ IF ndim > 3
       THEN LET d == [e \in 1..Len(me_data) |-> shape3[me_data[e].echo]]
            IN  IF Cardinality(Range(d)) > 1
                THEN IF OneStepDown(d)
                     THEN /\ dim4' = [e \in 1..Len(d) |-> Min(Range(d))]
                          /\ log' = log \o <<"warning Not all echos were acquired",
                                             "warning Truncating echos">>
                          /\ echos' = Stack4D(me_data, dim4')
                          /\ pc' = "ConsistencyChecked"
                          /\ UNCHANGED <<ret, stage>>
                     ELSE /\ dim4' = d
                          /\ log' = log \o <<"warning Not all echos were acquired",
                                             "error Inconsistent echo images">>
                          /\ ret' = <<1>>
                          /\ stage' = "consistency"
                          /\ pc' = "Done"
                          /\ UNCHANGED echos
                ELSE /\ dim4' = d
                     /\ echos' = Stack4D(me_data, d)
                     /\ pc' = "ConsistencyChecked"
                     /\ UNCHANGED <<log, ret, stage>>
       ELSE /\ echos' = Stack3D(me_data)
            /\ pc' = "ConsistencyChecked"
            /\ UNCHANGED <<dim4, log, ret, stage>>
    /\ UNCHANGED <<entry, LOGGER, nfiles, TEs_in, ndim, shape3, kind, algorithm,
                   volumes, saveweights, weights, me_data, datafiles, n_vols,
                   average, combinedFile, weightsFile, exc>>

\* "Combine the images", "Save the weights", return 0.  `saveweights` is
\* read for PAID alone.
Combine ==
    /\ pc = "ConsistencyChecked"
    /\ \E sw \in BOOLEAN :
         /\ algorithm # "PAID" => sw = TRUE
         /\ saveweights' = sw
         /\ LET r == Average(echos, weights)
            IN  IF r.exc # "none"
                THEN /\ Raise(r.exc, "combine")
                     /\ UNCHANGED <<average, combinedFile, weightsFile, log, ret>>
                ELSE /\ average' = r.a
                     /\ combinedFile' = [t \in 1..Len(r.a) |-> NanToNum(r.a[t])]
                     /\ IF sw /\ algorithm = "PAID"
                        THEN /\ weightsFile' = FirstVolume(weights)
                             /\ log' = log \o <<"info Saving combined image",
                                                "info Saving PAID weights">>
                        ELSE /\ log' = Append(log, "info Saving combined image")
                             /\ UNCHANGED weightsFile
                     /\ ret' = <<0>>
                     /\ stage' = "done"
                     /\ pc' = "Done"
                     /\ exc' = exc
    /\ UNCHANGED <<entry, LOGGER, nfiles, TEs_in, ndim, shape3, kind, algorithm,
                   volumes, weights, me_data, datafiles, n_vols, dim4, echos>>

\* The call is over: the caller has the status or the exception, the locals
\* are gone, the module's global LOGGER stays.
Return ==
    /\ pc = "Done"
    /\ pc' = "idle"
    /\ entry' = "none"
    /\ stage' = "none"
    /\ log' = <<>>
    /\ nfiles' = 0
    /\ TEs_in' = <<>>
    /\ ndim' = 3
    /\ shape3' = <<>>
    /\ kind' = "ramp"
    /\ algorithm' = "TE"
    /\ volumes' = MaxVols
    /\ saveweights' = TRUE
    /\ weights' = None
    /\ me_data' = <<>>
    /\ datafiles' = <<>>
    /\ n_vols' = 0
    /\ dim4' = <<>>
    /\ echos' = <<>>
    /\ average' = <<>>
    /\ combinedFile' = NotWritten
    /\ weightsFile' = NotWritten
    /\ ret' = <<>>
    /\ exc' = "none"
    /\ UNCHANGED LOGGER

Next ==
    \/ MeCombineCall
    \/ LoadMeDataCall
    \/ LoadMeData
    \/ ParseFilenames
    \/ ComputeWeights
    \/ CheckConsistency
    \/ Combine
    \/ Return

Spec == Init /\ [][Next]_vars

\* ------------------------------------------------------------- claims
\* A run of me_combine has ended, by a return or by an exception.
Ended == entry = "me_combine" /\ pc = "Done"

NothingWritten == combinedFile = NotWritten /\ weightsFile = NotWritten

\* A float that is neither NaN nor +-Inf.
IsFinite(x) == x.k \in {"fin", "max"}

\* The numbers of volumes of the echoes, taken in echo-time order.
Counts == [e \in 1..Len(me_data) |-> shape3[me_data[e].echo]]

AllEqual(c) == \A i, j \in 1..Len(c) : c[i] = c[j]

\* Exactly one adjacent difference is -1 and every other one is 0.
SingleTruncation(c) ==
    \E i \in 1..(Len(c) - 1) :
        /\ c[i + 1] - c[i] = -1
        /\ \A j \in 1..(Len(c) - 1) : j # i => c[j + 1] - c[j] = 0

\* The first m volumes of file f.
FirstVolumes(f, m) == [t \in 1..m |-> GetData(f)[t]]

\* The last k volumes of a series (k at most its length); none when k = 0.
LastVolumes(s, k) == [t \in 1..k |-> s[Len(s) - k + t]]

\* C1: a selector that resolves to zero files ends the run by returning
\* status 2, without an exception and with no output written.
C1_NoFilesReturns2 ==
    (Ended /\ nfiles = 0) =>
        (ret = <<2>> /\ exc = "none" /\ NothingWritten)

\* C2: for 4D echoes in echo-time order the consistency step has three
\* outcomes: equal counts are stacked untruncated; a single step of -1 (all
\* other steps 0) truncates every echo to the smallest count and goes on to
\* the combination; any other pattern returns 1, raising nothing and writing
\* nothing.
C2_ConsistencyOutcomes ==
    (/\ entry = "me_combine"
     /\ ndim = 4
     /\ pc = "ConsistencyChecked" \/ (pc = "Done" /\ stage = "consistency")) =>
        CASE AllEqual(Counts) ->
                /\ pc = "ConsistencyChecked"
                /\ \A e \in 1..Len(me_data) : echos[e] = GetData(me_data[e].echo)
          [] ~AllEqual(Counts) /\ SingleTruncation(Counts) ->
                /\ pc = "ConsistencyChecked"
                /\ Len(echos) = Len(me_data)
                /\ \A e \in 1..Len(me_data) :
                     echos[e] = FirstVolumes(me_data[e].echo, Min(Range(Counts)))
          [] OTHER ->
                /\ pc = "Done"
                /\ ret = <<1>>
                /\ exc = "none"
                /\ NothingWritten

\* C2's case: three echoes, the last one a volume short, have been truncated
\* and stacked.
C2_Witness ==
    /\ entry = "me_combine"
    /\ pc = "ConsistencyChecked"
    /\ ndim = 4
    /\ Len(me_data) = 3
    /\ ~AllEqual(Counts)
    /\ \A e \in 1..3 : Len(echos[e]) = Min(Range(Counts))

\* C3: PAID on echoes that are not 4D returns status 1, raising nothing and
\* writing nothing.
C3_PaidNeeds4D ==
    (Ended /\ algorithm = "PAID" /\ ndim < 4) =>
        (ret = <<1>> /\ exc = "none" /\ NothingWritten)

\* C4: under an algorithm name that is none of average, TE, PAID the run
\* does not go on: nothing is averaged, no combined image is written and
\* status 0 is not returned.
C4_UnknownAlgorithmStops ==
    (entry = "me_combine" /\ algorithm \notin {"average", "TE", "PAID"}) =>
        (average = <<>> /\ combinedFile = NotWritten /\ ret # <<0>>)

\* The TE-weighted mean of the files' voxels at volume t, each file weighted
\* by the echo time that stood at its place in the unsorted list.
TEMean(t) ==
    FDiv(FSum([f \in 1..nfiles |-> FMul(GetData(f)[t], Fin(TEs_in[f], 1))]),
         FSum([f \in 1..nfiles |-> Fin(TEs_in[f], 1)]))

\* The volumes a combined image of the files has.
CombinedExtent == IF ndim = 4 THEN Min({shape3[f] : f \in 1..nfiles}) ELSE 1

\* C5 (as amended): under TE every voxel of the written combined volume whose
\* value Sum(echo_i * TE_i) / Sum(TE_i) is finite equals that value.
C5_TEWeightedMean ==
    (Ended /\ ret = <<0>> /\ algorithm = "TE") =>
        /\ Len(combinedFile) = CombinedExtent
        /\ \A t \in 1..CombinedExtent :
             IsFinite(TEMean(t)) => combinedFile[t] = TEMean(t)

\* C5 (as claimed): under TE every voxel of the written combined volume
\* equals Sum(echo_i * TE_i) / Sum(TE_i).
C5_TEWeightedMeanEveryVoxel ==
    (Ended /\ ret = <<0>> /\ algorithm = "TE") =>
        /\ Len(combinedFile) = CombinedExtent
        /\ \A t \in 1..CombinedExtent : combinedFile[t] = TEMean(t)

\* C5's case: echoes with different echo times and different voxels, which
\* the sort has reordered, have been combined under TE.
C5_Witness ==
    /\ Ended /\ ret = <<0>> /\ algorithm = "TE"
    /\ kind = "ramp"
    /\ nfiles >= 2
    /\ TEs_in[1] > TEs_in[2]
    /\ datafiles[1] # 1
    /\ IsFinite(TEMean(1)) /\ combinedFile[1] = TEMean(1)

\* C6: in a run that reaches the combination every written voxel is finite,
\* and a voxel whose weighted average was NaN, +Inf or -Inf is exactly 0.
C6_NonFiniteBecomesZero ==
    (Ended /\ ret = <<0>>) =>
        \A t \in 1..Len(combinedFile) :
            /\ IsFinite(combinedFile[t])
            /\ ~IsFinite(average[t]) => combinedFile[t] = Fin(0, 1)

C8_LoadAloneLogsFilesThenTimes ==
    (entry = "load_me_data" /\ pc = "Done") =>
        /\ exc = "none"
        /\ \E i, j \in 1..Len(log) :
             /\ i < j
             /\ log[i] = "info Loading ME-files"
             /\ log[j] = "info Multi-Echo times"

\* C9: under PAID with a recoverable single truncation the tiled weights have
\* the temporal extent of the truncated stacked echoes, and the run completes
\* with status 0.  Stated for echoes with distinct echo times, whose order
\* every sort agrees on.
C9_PaidWeightsFitTruncatedEchoes ==
    (/\ Ended
     /\ algorithm = "PAID"
     /\ ndim = 4
     /\ \A f, g \in 1..nfiles : f # g => TEs_in[f] # TEs_in[g]
     /\ ~AllEqual(Counts)
     /\ SingleTruncation(Counts)) =>
        /\ Extent(weights.w) = Extent(echos)
        /\ Extent(echos) = Min(Range(Counts))
        /\ ret = <<0>>
        /\ exc = "none"

\* C10: paid_weights takes every echo's mean and standard deviation over the
\* last min(n, sampleCount(echo)) volumes of that echo, and sets the weight
\* to TE * mean / std.
C10_PaidWindowIsLastMinOwnCount ==
    (entry = "me_combine" /\ pc = "WeightsComputed" /\ algorithm = "PAID") =>
        \A e \in 1..Len(me_data) :
            LET data == GetData(me_data[e].echo)
                k == IF volumes < Len(data) THEN volumes ELSE Len(data)
                window == LastVolumes(data, k)
            IN  weights.w[e][1] =
                    FDiv(FMul(Fin(me_data[e].TE, 1), Mean(window)), Std(window))

====
